---- MODULE Spec2Model ----
(***************************************************************************)
(* backup_util.py: the backup procedures (backup_dir, backup_svn_repo,     *)
(* backup_svn_wc, backup_git_repo, backup_trac, backup_lamp,               *)
(* backup_latest), download_latest and the helpers they call, as a state   *)
(* machine over the log file, the temporary directories, the local files   *)
(* and the S3 bucket.                                                      *)
(*                                                                         *)
(* Conventions.  A text built with format()/+ is the sequence of its       *)
(* parts.  A path is a record [dir, stem, ext]; a temporary directory is   *)
(* the sequence <<n>> of its unique name, "<<n>>/trac" is <<n, "trac">>.   *)
(* File ages are counted in half days.  Python's None is NoDir / NoFile /  *)
(* NoObject.  The environment decides the outcome of every external call   *)
(* (exit code, an exception raised by the call, undecodable output).       *)
(***************************************************************************)
EXTENDS Naturals, Sequences, FiniteSets

(***************************************************************************)
(* Bounds of the model and program constants                               *)
(***************************************************************************)
\* no call is made once the log holds MaxLog lines
MaxLog == 7
\* the thresholds the sweeper is tried with on its own: 0..MaxDays
MaxDays == 2
\* the greatest age of a file in the listings backup_latest is run on
MaxAge == 2
\* the greatest LastModified of an object in the buckets download_latest is run on
MaxMtime == 3
\* the durations _format_time_delta is tried on: less than MaxDeltaDays + 1 days
MaxDeltaDays == 1
\* the exit codes a process is tried with: 0 .. MaxReturnCode
MaxReturnCode == 2
\* the resolution of file ages
HalfDaysPerDay == 2

\* the calls each of two concurrent processes makes
MaxCalls == 2
MAX_ARCHIVE_AGE_DAYS == 20

Procs ==
    {"backup_dir", "backup_svn_repo", "backup_svn_wc", "backup_git_repo",
     "backup_trac", "backup_lamp", "backup_latest", "download_latest"}

BackupProcs == Procs \ {"download_latest"}

\* the procedures that archive a directory (and sweep the archive's directory)
ArchivingProcs == BackupProcs \ {"backup_latest"}

Hints == {"FAILED"}

Sizes == {1, 2}

NoDir == <<>>
NoFile == [size |-> 0, age |-> 0, present |-> FALSE]
NoObject == [size |-> 0, mtime |-> 0, present |-> FALSE]
NoPath == [dir |-> "", stem |-> "", ext |-> ""]
NoExc == "none"

File(s, a) == [size |-> s, age |-> a, present |-> TRUE]

Path(d, s, e) == [dir |-> d, stem |-> s, ext |-> e]

\* the regular files the model tracks
AllPaths ==
    {Path("bk", "site", ".7z"), Path("bk", "old", ".7z"), Path("bk", "mid", ".7z"),
     Path("bk", "old", ".txt"), Path("alt", "site", ".7z")}

\* the archive_path arguments
ArchivePaths == {Path("bk", "site", ".7z")}

\* the backup_filemask arguments of backup_latest: <dir>/*<ext>
FileMasks == {[dir |-> "bk", ext |-> ".7z"], [dir |-> "bk", ext |-> ".log"]}

\* os.path.basename, os.path.dirname, os.path.splitext(...)[1]
basename(p) == [stem |-> p.stem, ext |-> p.ext]

dirname(p) == p.dir

splitext1(p) == p.ext

Keys == {basename(p) : p \in AllPaths}

\* what interrupts a wait for an external command (Ctrl-C during communicate())
ToolExc == {"KeyboardInterrupt"}

\* class Exception and its subclasses; KeyboardInterrupt derives from BaseException only
IsException(e) == e # "KeyboardInterrupt"

VARIABLES
    proc,            \* the procedure running, "none" between calls
    pc,              \* its position
    archive_path,    \* argument: archive_path
    filemask,        \* argument: backup_filemask
    store_dir,       \* argument of download_latest
    file_prefix,     \* argument of download_latest
    status_brief,
    status_detailed,
    backup_ok,       \* backup_ok / downloadOk
    temp_backup_dir, \* temp_backup_dir / svn_backup_dir
    result,          \* the record returned, when pc = "returned"
    escaped,         \* the exception that left the procedure, when pc = "raised"
    log,             \* the lines of the log file
    log_writable,    \* whether open(log_file, 'a') succeeds
    s3,              \* the bucket: key -> object
    local,           \* the regular files: path -> file
    tmpdirs,         \* the temporary directories that exist
    h,               \* what the run has done so far (history of the current call)
    sw,              \* the sweeper run on its own: its arguments, the directory, the outcome
    delta,           \* _format_time_delta run on its own: its argument and its result
    cmd,             \* a shell-command wrapper run on its own: the process and the result
    runs             \* two processes running backup procedures at once: run -> its locals

vars ==
    <<proc, pc, archive_path, filemask, store_dir, file_prefix, status_brief, status_detailed,
      backup_ok, temp_backup_dir, result, escaped, log, log_writable, s3, local,
      tmpdirs, h, sw, delta, cmd, runs>>

\* the helpers run on their own, and the runs of two processes
helpers == <<sw, delta, cmd, runs>>

args == <<archive_path, filemask, store_dir, file_prefix>>

files == <<s3, local, tmpdirs>>

program ==
    <<proc, pc, args, status_brief, status_detailed, backup_ok, temp_backup_dir, result,
      escaped, log, log_writable, files, h>>

NoResult == [retval |-> FALSE, status_brief |-> <<>>, status_detailed |-> <<>>]

\* what a call remembers of the call before it
NoPrev == [proc |-> "none", uploaded |-> FALSE, key |-> basename(NoPath), dir |-> ""]

\* the history of a call that has done nothing yet
h0 ==
    [created |-> {},        \* the directories tempfile.mkdtemp() made
     raisedAt |-> "",       \* the step whose exception the try caught first
     raisedExc |-> NoExc,
     afterRaise |-> {},     \* ARCHIVE / UPLOAD-DECISION steps run after it
     toolFailed |-> "",     \* the external tool that exited non-zero
     archived |-> FALSE,    \* _archive was invoked
     existsAnswer |-> "",   \* what _is_file_exist_on_s3 returned
     archiveSrc |-> NoDir,  \* the src_dir given to _archive
     existsKey |-> basename(NoPath),
     uploads |-> 0,         \* invocations of _upload_to_s3
     uploadKey |-> basename(NoPath),
     swept |-> FALSE,       \* _cleanup_old_archines was invoked
     sweepRet |-> TRUE,
     deleted |-> {},        \* files the run deleted
     s3_key |-> basename(NoPath), \* s3_key of download_latest
     stored |-> {},         \* the keys download_file wrote under store_dir
     backup_filepath |-> NoPath,  \* backup_filepath of backup_latest
     faults |-> {},         \* what the environment made go wrong: <<step, outcome>>
     prev |-> NoPrev,       \* the call before this one
     local0 |-> [p \in AllPaths |-> NoFile], \* the files when the call was made
     logged0 |-> 0]         \* Len(log) when the call was made

\* the archive directory before the first call: two files a day past the
\* threshold, one half a day past it, and no archive at archive_path yet
InitialFiles ==
    [p \in AllPaths |->
        IF p.stem = "old" THEN File(1, (MAX_ARCHIVE_AGE_DAYS + 1) * HalfDaysPerDay)
        ELSE IF p.stem = "mid" THEN File(1, MAX_ARCHIVE_AGE_DAYS * HalfDaysPerDay + 1)
        ELSE NoFile]

\* the sweeper not run on its own
SwIdle ==
    [files |-> [p \in AllPaths |-> NoFile], before |-> [p \in AllPaths |-> NoFile],
     dir |-> "", extension |-> "", max_age |-> MAX_ARCHIVE_AGE_DAYS,
     ran |-> FALSE, ret |-> FALSE]

\* _format_time_delta not run on its own
DeltaIdle == [aTimeDelta |-> [days |-> 0, seconds |-> 0], out |-> <<>>, done |-> FALSE]

\* no wrapper run on its own
CmdIdle ==
    [wrapper |-> "", returncode |-> 0, stdout |-> <<>>, stderr |-> <<>>,
     ret |-> [ret |-> FALSE, description |-> <<>>, stdout |-> <<>>, stderr |-> <<>>],
     logged |-> <<>>, raised |-> NoExc, done |-> FALSE]

\* the two processes
Runs == {1, 2}

\* the locals of a process that is in no call
RunIdle ==
    [proc |-> "none", pc |-> "idle", archive_path |-> NoPath, temp_backup_dir |-> NoDir,
     temp_dir |-> NoDir, calls |-> 0, archived |-> NoDir,
     overlapped |-> FALSE]

\* the locals of no call, an empty log
InitControl ==
    /\ runs = [i \in Runs |-> RunIdle]
    /\ proc = "none"
    /\ pc = "idle"
    /\ archive_path = NoPath
    /\ filemask = [dir |-> "", ext |-> ""]
    /\ store_dir = ""
    /\ file_prefix = ""
    /\ status_brief = <<>>
    /\ status_detailed = <<>>
    /\ backup_ok = FALSE
    /\ temp_backup_dir = NoDir
    /\ result = NoResult
    /\ escaped = NoExc
    /\ log = <<>>
    /\ log_writable = TRUE
    /\ tmpdirs = {}
    /\ h = h0

InitProgram ==
    /\ InitControl
    /\ s3 = [k \in Keys |-> NoObject]
    /\ local = InitialFiles

Init ==
    /\ sw = SwIdle
    /\ delta = DeltaIdle
    /\ cmd = CmdIdle
    /\ InitProgram


(***************************************************************************)
(* Helpers                                                                 *)
(***************************************************************************)
IsPrefix(a, b) == Len(a) <= Len(b) /\ SubSeq(b, 1, Len(a)) = a

\* the file opened with 'w': the line replaces the content
write_log_truncating(l, msg) == <<msg>>

\* _write_log: one more line at the end of the file (the timestamp is left out)
write_log(l, msg) == Append(l, msg)

\* one fixed directory, whatever exists
mkdtemp_fixed(S) == <<1>>

\* tempfile.mkdtemp(): a directory that did not exist (the least unused name)
mkdtemp(S) ==
    <<CHOOSE n \in 1..(Cardinality(S) + 1) :
          /\ <<n>> \notin S
          /\ \A m \in 1..(n - 1) : <<m>> \in S>>

\* shutil.rmtree(d, ignore_errors=True): d and everything below it
rmtree(S, d) == {q \in S : ~IsPrefix(d, q)}

\* the dict a command wrapper returns for a process that exited
CommandOutcome(tool, ok) ==
    [ret |-> ok,
     description |->
         <<tool, IF ok THEN "completed successfully" ELSE "finished with return code">>,
     stdout |-> <<"stdout of", tool>>,
     stderr |-> <<"stderr of", tool>>]

\* '{}\nStdOut: {}\nStdErr: {}\n'.format(description, stdout, stderr)
OutErrLine(r) == r.description \o <<"StdOut:">> \o r.stdout \o <<"StdErr:">> \o r.stderr

\* '{}\nStdErr: {}\n'.format(description, stderr)
ErrLine(r) == r.description \o <<"StdErr:">> \o r.stderr

\* what an external command can do: exit 0, exit non-zero, be interrupted
\* while the wrapper waits for it, or print bytes that are not UTF-8
ToolOutcomes == {"ok", "fail", "undecodable"} \cup ToolExc

\* _to_unicode on bytes that are not UTF-8 calls _write_log with one argument
ToolRaises(o) == IF o = "undecodable" THEN "TypeError" ELSE o

\* head_object / upload_file / list_objects_v2 failing (403, no bucket, no network)
S3Exc == {"ClientError"}

\* the two except clauses of every procedure
Caught(sd, e) ==
    IF IsException(e) THEN sd \o <<"Error:", e>> ELSE sd \o <<"Unknown error">>

\* the history of a step raising inside the try
Raised(hh, step, e) == [hh EXCEPT !.raisedAt = step, !.raisedExc = e]

\* the history of the environment making a step go wrong
Fault(hh, step, o) == [hh EXCEPT !.faults = @ \cup {<<step, o>>}]

\* the history of an ARCHIVE / UPLOAD-DECISION step starting
Stepped(hh, step) ==
    IF hh.raisedAt # "" THEN [hh EXCEPT !.afterRaise = @ \cup {step}] ELSE hh

\* the tool of each procedure's SNAPSHOT
SnapshotTool(p) ==
    CASE p = "backup_svn_repo" -> "svnadmin hotcopy"
      [] p = "backup_svn_wc" -> "svn up"
      [] p = "backup_git_repo" -> "git clone and bundle"
      [] p = "backup_trac" -> "trac-admin hotcopy"
      [] p = "backup_lamp" -> "mysqldump"
      [] OTHER -> ""

\* where a procedure goes after 'Starting backup'
FirstStep(p) ==
    CASE p = "backup_dir" -> "archive"
      [] p = "backup_latest" -> "select"
      [] p = "download_latest" -> "find"
      [] OTHER -> "snapshot"

(***************************************************************************)
(* A call: the arguments, the assignments before the try and the first     *)
(* log line, _write_log(log_file, 'Starting ...'), which is outside the try *)
(***************************************************************************)
\* 'Starting backup', 'Starting backup {} to {}'.format(hint, bucket), 'Starting download'
StartLine(p, hint) ==
    IF p = "backup_latest" THEN <<"Starting backup", hint>>
    ELSE IF p = "download_latest" THEN <<"Starting download">>
    ELSE <<"Starting backup">>

\* the prefixes download_latest is called with: none, or the stem of a key
Prefixes == {"", "site"}

\* the file the UPLOAD-DECISION is about
FilePath == IF proc = "backup_latest" THEN h.backup_filepath ELSE archive_path

\* a call of one of the procedures P, with an archive_path of A, download_latest
\* with a file_prefix of F
CallOf(P, F, A) ==
    /\ pc \in {"idle", "returned", "raised"}
    /\ Len(log) < MaxLog
    /\ \E p \in P, hint \in Hints :
          /\ proc' = p
          /\ status_brief' =
                 IF p = "download_latest"
                 THEN <<"[S3 Backup] Get the latest backup starting with", hint>>
                 ELSE <<"[S3 Backup]", hint>>
          /\ IF p \in ArchivingProcs
             THEN \E a \in A : archive_path' = a
             ELSE archive_path' = NoPath
          /\ IF p = "backup_latest"
             THEN \E m \in FileMasks : filemask' = m
             ELSE filemask' = [dir |-> "", ext |-> ""]
          /\ IF p = "download_latest"
             THEN /\ \E d \in {"empty", "mirror"} : store_dir' = d
                  /\ \E f \in F : file_prefix' = f
             ELSE store_dir' = "" /\ file_prefix' = ""
          /\ log' = IF log_writable THEN write_log(log, StartLine(p, hint)) ELSE log
          /\ pc' = IF log_writable THEN FirstStep(p) ELSE "raised"
    /\ escaped' = IF log_writable THEN NoExc ELSE "OSError"
    /\ status_detailed' = <<>>
    /\ backup_ok' = FALSE
    /\ temp_backup_dir' = NoDir
    /\ result' = NoResult
    /\ h' = LET hc == [h0 EXCEPT
                         !.logged0 = Len(log),
                         !.local0 = local,
                         !.prev = [proc |-> proc,
                                   uploaded |-> (pc = "returned" /\ result.retval
                                                 /\ h.uploads = 1),
                                   key |-> h.uploadKey,
                                   dir |-> IF h.uploads = 0 THEN "" ELSE dirname(FilePath)]]
            IN  IF log_writable THEN hc ELSE Fault(hc, "start", "log")
    /\ UNCHANGED <<helpers, log_writable, files>>

Call == CallOf(Procs, Prefixes, ArchivePaths)

\* the log file stops being writable (disk full, permissions)
LogBreaks ==
    /\ log_writable
    /\ log_writable' = FALSE
    /\ UNCHANGED <<helpers, proc, pc, args, status_brief, status_detailed, backup_ok,
                   temp_backup_dir, result, escaped, log, files, h>>

(***************************************************************************)
(* SNAPSHOT: the first lines of the try of _backup_svn, backup_git_repo,   *)
(* backup_trac and backup_lamp                                             *)
(***************************************************************************)
\* the exception a step ends with: the log line before it cannot be written, the
\* environment's outcome o raises, or none
StepExc(failedLog, o) ==
    IF failedLog \/ o \in {"nomkdtemp", "copyfail"} THEN "OSError"
    ELSE IF o \in {"undecodable"} \cup ToolExc \cup S3Exc THEN ToolRaises(o)
    ELSE NoExc

\* the history of a step of the try: the fault, and the exception caught
StepHistory(hh, step, failedLog, o) ==
    LET e == StepExc(failedLog, o)
        f == IF failedLog THEN Fault(hh, step, "log")
             ELSE IF o \in {"ok", "answer", "list", "emptyContents"} THEN hh
             ELSE Fault(hh, step, o)
    IN  IF e = NoExc THEN f ELSE Raised(f, step, e)

Snapshot ==
    /\ pc = "snapshot"
    /\ \E o \in ToolOutcomes \cup {"nomkdtemp", "copyfail"} :
        LET \* backup_lamp writes no log line in its SNAPSHOT
            logs == proc # "backup_lamp"
            \* backup_svn_wc updates in place, the others call tempfile.mkdtemp()
            makes == proc # "backup_svn_wc"
            failedLog == logs /\ ~log_writable
            made == ~failedLog /\ makes /\ o # "nomkdtemp"
            d == mkdtemp(tmpdirs)
            \* temp_dir of _git_backup
            d2 == mkdtemp(tmpdirs \cup {d})
            exc == StepExc(failedLog, o)
            \* _git_backup reaches its rmtree(temp_dir) unless communicate() raised
            inner == IF proc = "backup_git_repo" /\ o \in ToolExc THEN {d2} ELSE {}
            \* trac-admin hotcopy makes <d>/trac
            sub == IF proc = "backup_trac" /\ o = "ok" THEN {d \o <<"trac">>} ELSE {}
            ret == CommandOutcome(SnapshotTool(proc), o = "ok")
            log1 == IF logs /\ ~failedLog
                    THEN write_log(log, <<"Backing up", SnapshotTool(proc)>>) ELSE log
            log2 == IF logs /\ exc = NoExc
                    THEN write_log(log1, OutErrLine(ret)) ELSE log1
            h1 == [h EXCEPT
                     !.created = IF made
                                 THEN {d} \cup (IF proc = "backup_git_repo" THEN {d2} ELSE {})
                                 ELSE {},
                     !.toolFailed = IF exc = NoExc /\ o = "fail"
                                    THEN SnapshotTool(proc) ELSE ""]
        IN  /\ (o = "nomkdtemp") => makes
            \* shutil.copytree raising, in backup_lamp
            /\ (o = "copyfail") => (proc = "backup_lamp")
            /\ tmpdirs' = IF made THEN tmpdirs \cup {d} \cup inner \cup sub ELSE tmpdirs
            /\ temp_backup_dir' =
                   IF ~made THEN NoDir
                   ELSE IF proc = "backup_trac" THEN d \o <<"trac">> ELSE d
            /\ log' = log2
            /\ status_detailed' =
                   IF exc = NoExc THEN status_detailed ELSE Caught(status_detailed, exc)
            /\ pc' = IF exc = NoExc /\ ret.ret THEN "archive" ELSE "finally"
            /\ h' = StepHistory(h1, "snapshot", failedLog, o)
    /\ UNCHANGED <<helpers, proc, args, status_brief, backup_ok, result, escaped,
                   log_writable, s3, local>>

(***************************************************************************)
(* ARCHIVE: _write_log("Archiving ..."), _archive, _write_log(outcome)     *)
(***************************************************************************)
\* the path of the live source (dir, svn_dir), which is no temporary directory
LiveDir == <<0>>

\* the live path given to _archive by every procedure
ArchiveSource_live(p, tbd) == LiveDir

\* the src_dir each procedure gives to _archive
ArchiveSource(p, tbd) ==
    IF p \in {"backup_dir", "backup_svn_wc"} THEN LiveDir ELSE tbd

Archive ==
    /\ pc = "archive"
    /\ \E o \in ToolOutcomes, sz \in Sizes :
        LET failedLog == ~log_writable
            exc == StepExc(failedLog, o)
            ret == [ret |-> o = "ok",
                    description |-> CommandOutcome("7za", o = "ok").description,
                    stderr |-> CommandOutcome("7za", o = "ok").stderr]
            log1 == IF failedLog THEN log ELSE write_log(log, <<"Archiving">>)
            log2 == IF exc = NoExc THEN write_log(log1, ErrLine(ret)) ELSE log1
            h1 == IF failedLog THEN h
                  ELSE [Stepped(h, "archive") EXCEPT
                          !.archived = TRUE,
                          !.archiveSrc = ArchiveSource(proc, temp_backup_dir),
                          !.toolFailed = IF o = "fail" THEN "7za" ELSE ""]
        IN  /\ local' = IF exc = NoExc /\ ret.ret
                        THEN [local EXCEPT ![archive_path] = File(sz, 0)]
                        ELSE local
            /\ log' = log2
            /\ status_detailed' =
                   IF exc = NoExc THEN status_detailed ELSE Caught(status_detailed, exc)
            /\ pc' = IF exc = NoExc /\ ret.ret THEN "exists" ELSE "finally"
            /\ h' = StepHistory(h1, "archive", failedLog, o)
    /\ UNCHANGED <<helpers, proc, args, status_brief, backup_ok, temp_backup_dir, result,
                   escaped, log_writable, s3, tmpdirs>>

(***************************************************************************)
(* backup_latest: the newest file the mask matches                         *)
(***************************************************************************)
\* glob.glob(backup_filemask) for a mask <dir>/*<ext>
glob(fs, m) == {p \in DOMAIN fs : fs[p].present /\ p.dir = m.dir /\ p.ext = m.ext}

\* the oldest match taken instead
Latest_first(fs, S) == {p \in S : \A q \in S : fs[p].age >= fs[q].age}

\* sorted(..., key=st_mtime)[-1]: the matches no other match is newer than; among
\* files of one mtime the order glob.glob listed them in decides
Latest(fs, S) == {p \in S : \A q \in S : fs[p].age <= fs[q].age}

\* no match treated as a failed backup
EmptyMatchOk_failure == FALSE

\* "if len(files) == 0: backup_ok = True"
EmptyMatchOk == TRUE

SelectLatest ==
    /\ pc = "select"
    /\ LET matches == glob(local, filemask)
       IN  IF matches = {}
           THEN /\ backup_ok' = EmptyMatchOk
                /\ status_detailed' = <<"Nothing to backup in", filemask.ext>>
                /\ h' = h
                /\ pc' = "finally"
           ELSE /\ backup_ok' = backup_ok
                /\ status_detailed' = status_detailed
                /\ \E f \in Latest(local, matches) :
                       h' = [h EXCEPT !.backup_filepath = f]
                /\ pc' = "exists"
    /\ UNCHANGED <<helpers, proc, args, status_brief, temp_backup_dir, result, escaped,
                   log, log_writable, files>>

(***************************************************************************)
(* UPLOAD-DECISION                                                         *)
(***************************************************************************)
\* the object found, its ContentLength not compared
is_file_exist_on_s3_anysize(bucket, fs, file_path) == bucket[basename(file_path)].present

\* _is_file_exist_on_s3: head_object answers, and ContentLength is the file's size
is_file_exist_on_s3(bucket, fs, file_path) ==
    /\ bucket[basename(file_path)].present
    /\ bucket[basename(file_path)].size = fs[file_path].size

\* the else branch of "if not _is_file_exist_on_s3(...)" formats a name that
\* backup_trac (backup_filepath) and backup_latest (archive_path) never bind
SkipMessageRaises(p) ==
    IF p \in {"backup_trac", "backup_latest"} THEN "NameError" ELSE NoExc

\* backup_ok = True everywhere, also when the existence check or the upload raised
UploadDecided_always(exc) == TRUE

\* "backup_ok = True" is the last statement of the UPLOAD-DECISION: it runs only
\* when nothing before it raised
UploadDecided(exc) == exc = NoExc

ExistsCheck ==
    /\ pc = "exists"
    /\ \E o \in {"answer"} \cup S3Exc :
        LET answer == is_file_exist_on_s3(s3, local, FilePath)
            exc == IF o # "answer" THEN o
                   ELSE IF answer THEN SkipMessageRaises(proc) ELSE NoExc
            h1 == [Stepped(h, "exists") EXCEPT
                     !.existsKey = basename(FilePath),
                     !.existsAnswer = IF o # "answer" THEN "raised"
                                      ELSE IF answer THEN "exists" ELSE "absent"]
            h2 == StepHistory(h1, "exists", FALSE, o)
        IN  /\ status_detailed' =
                   IF exc # NoExc THEN Caught(status_detailed, exc)
                   ELSE IF answer THEN <<"already exists at S3, skip upload">>
                   ELSE <<"Uploading to S3...">>
            /\ backup_ok' = (UploadDecided(exc) /\ (exc # NoExc \/ answer))
            /\ pc' = IF exc = NoExc /\ ~answer THEN "upload" ELSE "finally"
            /\ h' = IF o = "answer" /\ exc # NoExc THEN Raised(h2, "exists", exc) ELSE h2
    /\ UNCHANGED <<helpers, proc, args, status_brief, temp_backup_dir, result, escaped,
                   log, log_writable, files>>

\* LastModified of a new object: later than every object of the bucket
NextMtime(bucket) ==
    1 + (CHOOSE m \in {bucket[k].mtime : k \in DOMAIN bucket} :
             \A k \in DOMAIN bucket : bucket[k].mtime <= m)

\* the object stored under another key than the file's base name
upload_to_s3_elsewhere(bucket, fs, file_path) ==
    LET k == CHOOSE j \in DOMAIN bucket : j # basename(file_path)
    IN  [bucket EXCEPT ![k] =
            [size |-> fs[file_path].size, mtime |-> NextMtime(bucket), present |-> TRUE]]

\* _upload_to_s3: the object named by the file's base name gets the file's size
upload_to_s3(bucket, fs, file_path) ==
    [bucket EXCEPT ![basename(file_path)] =
        [size |-> fs[file_path].size, mtime |-> NextMtime(bucket), present |-> TRUE]]

Upload ==
    /\ pc = "upload"
    /\ \E o \in {"ok"} \cup S3Exc :
        LET \* backup_latest logs 'Uploading ...' before it uploads
            failedLog == proc = "backup_latest" /\ ~log_writable
            exc == StepExc(failedLog, o)
            h1 == IF failedLog THEN h
                  ELSE [Stepped(h, "upload") EXCEPT
                          !.uploads = @ + 1,
                          !.uploadKey = basename(FilePath)]
        IN  /\ s3' = IF exc = NoExc THEN upload_to_s3(s3, local, FilePath) ELSE s3
            /\ log' = IF proc = "backup_latest" /\ ~failedLog
                      THEN write_log(log, <<"Uploading to S3...">>) ELSE log
            /\ status_detailed' =
                   IF exc = NoExc THEN status_detailed \o <<"done.">>
                   ELSE Caught(status_detailed, exc)
            /\ backup_ok' = UploadDecided(exc)
            /\ h' = StepHistory(h1, "upload", failedLog, o)
    /\ pc' = "finally"
    /\ UNCHANGED <<helpers, proc, args, status_brief, temp_backup_dir, result, escaped,
                   log_writable, local, tmpdirs>>

(***************************************************************************)
(* CLEANUP: the finally block of the backup procedures                     *)
(***************************************************************************)
\* the age find compares: whole 24-hour periods, the fraction dropped
AgeInDays(age) == age \div HalfDaysPerDay

\* find <dir>/*<extension> -mtime +<max_age> -exec rm -f {} \; : the files removed
cleanup_old_archines(fs, dir, extension, max_age) ==
    {p \in DOMAIN fs :
        /\ fs[p].present
        /\ p.dir = dir
        /\ (extension = "" \/ p.ext = extension)
        /\ AgeInDays(fs[p].age) > max_age}

\* the files left once the set D is removed
Remove(fs, D) == [q \in DOMAIN fs |-> IF q \in D THEN NoFile ELSE fs[q]]

\* the exit code kept, the description always the one of success
SweepOutcome_silent(ok) ==
    [ret |-> ok,
     description |-> <<"find -exec rm", "completed successfully">>,
     stderr |-> <<"stderr of", "find -exec rm">>]

\* the dict _cleanup_old_archines returns
SweepOutcome(ok) ==
    [ret |-> ok,
     description |-> CommandOutcome("find -exec rm", ok).description,
     stderr |-> CommandOutcome("find -exec rm", ok).stderr]

\* the two words exchanged
StatusWord_swapped(ok) == IF ok THEN "FAILED" ELSE "OK"

\* the status word the finally block appends to status_brief
StatusWord(ok) == IF ok THEN "OK" ELSE "FAILED"

\* the sweeper run whatever backup_ok says
Sweeps_always(p, ok) == p \in ArchivingProcs

\* whether the finally block runs the sweeper
Sweeps(p, ok) == ok /\ p \in ArchivingProcs

\* what temp-directory removal leaves
RemoveTemp(S, tbd) == IF tbd # NoDir THEN rmtree(S, tbd) ELSE S

\* the exception that leaves the finally block: the sweeper's, else the log's
FinallyExc(sweepExc, writable) ==
    IF sweepExc # NoExc THEN sweepExc
    ELSE IF ~writable THEN "OSError" ELSE NoExc

Finally ==
    /\ pc = "finally"
    /\ proc \in BackupProcs
    /\ \E o \in ToolOutcomes :
        LET sweeps == Sweeps(proc, backup_ok)
            sweepExc == IF sweeps THEN StepExc(FALSE, o) ELSE NoExc
            exc == FinallyExc(sweepExc, log_writable)
            del == IF sweeps /\ o = "ok"
                   THEN cleanup_old_archines(local, dirname(archive_path),
                                             splitext1(archive_path), MAX_ARCHIVE_AGE_DAYS)
                   ELSE {}
            sret == SweepOutcome(o = "ok")
            brief == status_brief \o <<StatusWord(backup_ok)>>
            detailed == status_detailed \o <<"Elapsed time:">>
            log1 == IF sweeps THEN write_log(log, ErrLine(sret)) ELSE log
            log2 == write_log(log1, detailed)
            log3 == write_log(log2, <<"Backup finished with status",
                                      IF backup_ok THEN "SUCCESS" ELSE "ERROR">>)
            h1 == [h EXCEPT !.swept = sweeps,
                            !.sweepRet = IF sweeps /\ sweepExc = NoExc THEN sret.ret ELSE TRUE,
                            !.deleted = del]
            h2 == IF sweeps /\ o # "ok" THEN Fault(h1, "sweep", o) ELSE h1
        IN  /\ sweeps \/ o = "ok"
            /\ tmpdirs' = RemoveTemp(tmpdirs, temp_backup_dir)
            /\ local' = Remove(local, del)
            /\ status_brief' = brief
            /\ status_detailed' = IF exc = NoExc THEN detailed ELSE status_detailed
            /\ log' = IF exc = NoExc THEN log3 ELSE log
            /\ result' = IF exc = NoExc
                         THEN [retval |-> backup_ok, status_brief |-> brief,
                               status_detailed |-> detailed]
                         ELSE NoResult
            /\ escaped' = exc
            /\ pc' = IF exc = NoExc THEN "returned" ELSE "raised"
            /\ h' = IF sweepExc = NoExc /\ ~log_writable THEN Fault(h2, "finally", "log")
                    ELSE h2
    /\ UNCHANGED <<helpers, proc, args, backup_ok, temp_backup_dir, log_writable, s3>>

(***************************************************************************)
(* download_latest                                                         *)
(***************************************************************************)
\* the keys list_objects_v2 returns for the prefix
Listing(bucket, prefix) ==
    {k \in DOMAIN bucket : bucket[k].present /\ (prefix = "" \/ k.stem = prefix)}

\* the first key of the sorted list returned
find_latest_modified_s3_key_first(bucket, L) ==
    {k \in L : \A j \in L : bucket[j].mtime >= bucket[k].mtime}

\* keys.sort(key=LastModified); keys[-1]: the keys no other key of the listing is
\* later than; among keys of one LastModified the order of the listing decides
find_latest_modified_s3_key(bucket, L) ==
    {k \in L : \A j \in L : bucket[j].mtime <= bucket[k].mtime}

\* the file at os.path.join(store_dir, key): the directory "mirror" holds a file of
\* size 1 under every key, the directory "empty" holds none
StoreFile(dir, k) == IF dir = "mirror" THEN File(1, 0) ELSE NoFile

\* what list_objects_v2 does: answers (without 'Contents' when nothing matches),
\* answers with an empty 'Contents', or raises
ListOutcomes == {"list", "emptyContents"} \cup S3Exc

\* any exception in _find_latest_modified_s3_key reaches its except clause, whose
\* expression boto3.S3.Client.exceptions.NoSuchBucket raises AttributeError
FindExc(o, L) ==
    IF o \in S3Exc \/ (o = "list" /\ L = {}) THEN "AttributeError" ELSE NoExc

DlFind ==
    /\ pc = "find"
    /\ \E o \in ListOutcomes :
        LET L == Listing(s3, file_prefix)
            exc == IF ~log_writable THEN "OSError" ELSE FindExc(o, L)
            none == exc = NoExc /\ o = "emptyContents"
            h1 == IF ~log_writable THEN Fault(h, "find", "log")
                  ELSE IF o \in S3Exc THEN Fault(h, "find", o) ELSE h
        IN  /\ (o = "emptyContents") => (L = {})
            /\ log' = IF log_writable THEN write_log(log, <<"Downloading the latest backup", file_prefix, store_dir>>)
                      ELSE log
            /\ status_detailed' =
                   IF exc # NoExc THEN Caught(status_detailed, exc)
                   ELSE IF none THEN <<"No file found, nothing to do", "done.">>
                   ELSE status_detailed
            /\ backup_ok' = none
            /\ pc' = IF exc = NoExc /\ ~none THEN "fetch" ELSE "finally"
            /\ IF exc # NoExc THEN h' = Raised(h1, "find", exc)
               ELSE IF none THEN h' = h1
               ELSE \E k \in find_latest_modified_s3_key(s3, L) :
                        h' = [h1 EXCEPT !.s3_key = k]
    /\ UNCHANGED <<helpers, proc, args, status_brief, temp_backup_dir, result, escaped,
                   log_writable, files>>

\* lines 613-620: both branches raise, _download_from_s3 on the unbound name s3
\* (NameError), the skip branch on '...{}...' % (...) (TypeError)
FetchExc(need) == IF need THEN "NameError" ELSE "TypeError"

DlFetch ==
    /\ pc = "fetch"
    /\ LET f == StoreFile(store_dir, h.s3_key)
           need == ~f.present \/ f.size # s3[h.s3_key].size
           exc == FetchExc(need)
       IN  /\ status_detailed' =
                  Caught(IF need THEN <<"Downloading">> ELSE status_detailed, exc)
           /\ h' = IF exc # NoExc THEN Raised(h, "fetch", exc)
                    ELSE IF need THEN [h EXCEPT !.stored = @ \cup {h.s3_key}]
                    ELSE h
    /\ pc' = "finally"
    /\ UNCHANGED <<helpers, proc, args, status_brief, backup_ok, temp_backup_dir, result,
                   escaped, log, log_writable, files>>

\* the finally block of download_latest; store_path is bound only after a key was found
DlFinally ==
    /\ pc = "finally"
    /\ proc = "download_latest"
    /\ LET brief == status_brief \o <<StatusWord(backup_ok)>>
           exc == IF backup_ok THEN "UnboundLocalError"
                  ELSE IF ~log_writable THEN "OSError" ELSE NoExc
           detailed == status_detailed \o <<"ERROR downloading">>
       IN  /\ status_brief' = brief
           /\ status_detailed' = IF backup_ok THEN status_detailed ELSE detailed
           /\ log' = IF exc = NoExc THEN write_log(log, detailed) ELSE log
           /\ result' = IF exc = NoExc
                        THEN [retval |-> backup_ok, status_brief |-> brief,
                              status_detailed |-> detailed]
                        ELSE NoResult
           /\ escaped' = exc
           /\ pc' = IF exc = NoExc THEN "returned" ELSE "raised"
           /\ h' = IF ~backup_ok /\ ~log_writable THEN Fault(h, "finally", "log") ELSE h
    /\ UNCHANGED <<helpers, proc, args, backup_ok, temp_backup_dir, log_writable, files>>

(***************************************************************************)
(* The specification: calls one after another                              *)
(***************************************************************************)
Next ==
    \/ Call
    \/ LogBreaks
    \/ Snapshot
    \/ Archive
    \/ SelectLatest
    \/ ExistsCheck
    \/ Upload
    \/ Finally
    \/ DlFind
    \/ DlFetch
    \/ DlFinally

Spec == Init /\ [][Next]_vars

(***************************************************************************)
(* The Retention Sweeper on its own: _cleanup_old_archines called on any   *)
(* listing of the directory, with any extension and any max_age.           *)
(***************************************************************************)
\* the ages a file of the listing can have, in half days
SweepAges == 0 .. ((MaxDays + 1) * HalfDaysPerDay + 1)

SweepListings == [AllPaths -> {NoFile} \cup {File(1, a) : a \in SweepAges}]

SweepExtensions == {"", ".7z", ".txt"}

InitSweep ==
    /\ InitProgram
    /\ delta = DeltaIdle
    /\ cmd = CmdIdle
    /\ \E fs \in SweepListings, e \in SweepExtensions, n \in 0 .. MaxDays :
        sw = [files |-> fs, before |-> fs, dir |-> "bk", extension |-> e,
              max_age |-> n, ran |-> FALSE, ret |-> FALSE]

\* one call of _cleanup_old_archines(dir, extension, max_age): find exits 0
\* having removed what it selected, or exits non-zero having removed nothing
SweepRun ==
    /\ ~sw.ran
    /\ \E ok \in BOOLEAN :
        sw' = [sw EXCEPT
                 !.ran = TRUE,
                 !.ret = SweepOutcome(ok).ret,
                 !.files = IF ok
                           THEN Remove(sw.files,
                                       cleanup_old_archines(sw.files, sw.dir,
                                                            sw.extension, sw.max_age))
                           ELSE sw.files]
    /\ UNCHANGED <<delta, cmd, runs, program>>

NextSweep == SweepRun

SpecSweep == InitSweep /\ [][NextSweep]_vars

(***************************************************************************)
(* backup_latest called once on any listing of the directory               *)
(***************************************************************************)
\* the ages a file of the listing can have
LatestAges == 0 .. MaxAge

LatestListings == [AllPaths -> {NoFile} \cup {File(1, a) : a \in LatestAges}]

\* the bucket: empty, or holding an object of size 1 under every key
LatestBuckets ==
    {[k \in Keys |-> NoObject], [k \in Keys |-> [size |-> 1, mtime |-> 1, present |-> TRUE]]}

InitLatest ==
    /\ InitControl
    /\ sw = SwIdle
    /\ delta = DeltaIdle
    /\ cmd = CmdIdle
    /\ local \in LatestListings
    /\ s3 \in LatestBuckets

CallLatest == pc = "idle" /\ CallOf({"backup_latest"}, Prefixes, ArchivePaths)

NextLatest ==
    \/ CallLatest
    \/ LogBreaks
    \/ SelectLatest
    \/ ExistsCheck
    \/ Upload
    \/ Finally

SpecLatest == InitLatest /\ [][NextLatest]_vars

(***************************************************************************)
(* download_latest called once on any bucket                               *)
(***************************************************************************)
DownloadBuckets ==
    [Keys -> {NoObject} \cup
             {[size |-> z, mtime |-> t, present |-> TRUE] : z \in Sizes, t \in 1 .. MaxMtime}]

InitDownload ==
    /\ InitControl
    /\ sw = SwIdle
    /\ delta = DeltaIdle
    /\ cmd = CmdIdle
    /\ local = InitialFiles
    /\ s3 \in DownloadBuckets

\* no prefix, one that one key starts with, one that two keys start with
DownloadPrefixes == {"", "site", "old"}

CallDownload == pc = "idle" /\ CallOf({"download_latest"}, DownloadPrefixes, ArchivePaths)

NextDownload ==
    \/ CallDownload
    \/ LogBreaks
    \/ DlFind
    \/ DlFetch
    \/ DlFinally

SpecDownload == InitDownload /\ [][NextDownload]_vars

(***************************************************************************)
(* _format_time_delta called on its own on any duration that is not        *)
(* negative                                                                *)
(***************************************************************************)
\* the seconds of a day: datetime.timedelta keeps 0 <= seconds < 24 * 3600
SecondsPerDay == 24 * 3600

\* datetime.timedelta(seconds=n): days and seconds normalised, microseconds left out
timedelta(n) == [days |-> n \div SecondsPerDay, seconds |-> n % SecondsPerDay]

TimeDeltas == {timedelta(n) : n \in 0 .. ((MaxDeltaDays + 1) * SecondsPerDay - 1)}

\* "{} <unit>": a number and the unit printed after it
Unit(n, u) == [n |-> n, unit |-> u]

\* the minutes printed without "% 60"
format_time_delta_allminutes(aTimeDelta) ==
    LET mySeconds == aTimeDelta.seconds % 60
        myMinutes == aTimeDelta.seconds \div 60
        myHours == (aTimeDelta.seconds \div 3600) % 24
        myDays == aTimeDelta.days
    IN  IF myDays # 0
        THEN <<Unit(myDays, "day(s)"), Unit(myHours, "hour(s)"), Unit(myMinutes, "min"),
               Unit(mySeconds, "sec")>>
        ELSE IF myHours # 0
        THEN <<Unit(myHours, "hour(s)"), Unit(myMinutes, "min"), Unit(mySeconds, "sec")>>
        ELSE IF myMinutes # 0
        THEN <<Unit(myMinutes, "min"), Unit(mySeconds, "sec")>>
        ELSE <<Unit(mySeconds, "sec")>>

\* _format_time_delta: the text as the list of its "<n> <unit>" parts
format_time_delta(aTimeDelta) ==
    LET mySeconds == aTimeDelta.seconds % 60
        myMinutes == (aTimeDelta.seconds \div 60) % 60
        myHours == (aTimeDelta.seconds \div 3600) % 24
        myDays == aTimeDelta.days
    IN  IF myDays # 0
        THEN <<Unit(myDays, "day(s)"), Unit(myHours, "hour(s)"), Unit(myMinutes, "min"),
               Unit(mySeconds, "sec")>>
        ELSE IF myHours # 0
        THEN <<Unit(myHours, "hour(s)"), Unit(myMinutes, "min"), Unit(mySeconds, "sec")>>
        ELSE IF myMinutes # 0
        THEN <<Unit(myMinutes, "min"), Unit(mySeconds, "sec")>>
        ELSE <<Unit(mySeconds, "sec")>>

InitDelta ==
    /\ InitProgram
    /\ sw = SwIdle
    /\ cmd = CmdIdle
    /\ \E t \in TimeDeltas : delta = [aTimeDelta |-> t, out |-> <<>>, done |-> FALSE]

FormatDelta ==
    /\ ~delta.done
    /\ delta' = [delta EXCEPT !.out = format_time_delta(delta.aTimeDelta), !.done = TRUE]
    /\ UNCHANGED <<sw, cmd, runs, program>>

NextDelta == FormatDelta

SpecDelta == InitDelta /\ [][NextDelta]_vars

(***************************************************************************)
(* A shell-command wrapper called on its own, on any exit code and output  *)
(* of the process                                                          *)
(***************************************************************************)
Wrappers ==
    {"_svn_backup", "_svn_update", "_git_backup", "_mysql_db_backup", "_trac_backup",
     "_archive", "_cleanup_old_archines"}

\* stdout=subprocess.PIPE; _archive and _cleanup_old_archines send stdout to os.devnull
PipesStdout(w) == w \notin {"_archive", "_cleanup_old_archines"}

\* what a process writes to a pipe: nothing, a line with or without its newline,
\* an empty line, or bytes that are not UTF-8
Outputs == {<<>>, <<"text">>, <<"text", "\n">>, <<"\n">>, <<"0xff", "\n">>}

\* s.decode('utf-8') raising UnicodeDecodeError
Undecodable(s) == \E i \in 1 .. Len(s) : s[i] = "0xff"

\* str.rstrip(): the trailing whitespace dropped
RECURSIVE rstrip(_)
rstrip(s) ==
    IF s = <<>> THEN <<>>
    ELSE IF s[Len(s)] = "\n" THEN rstrip(SubSeq(s, 1, Len(s) - 1))
    ELSE s

\* what _to_unicode gets into the log: its except clause calls _write_log(msg)
\* without log_file, which raises TypeError before any line is written
WrapperLogs(w, out, err) == <<>>

\* what the wrapper raises: _to_unicode on myStdout, then on myStderr
WrapperRaises(w, out, err) ==
    IF (PipesStdout(w) /\ Undecodable(out)) \/ Undecodable(err)
    THEN ToolRaises("undecodable") ELSE NoExc

\* the dict the wrapper returns
WrapperReturns(w, returncode, out, err) ==
    [ret |-> returncode = 0,
     description |-> CommandOutcome(w, returncode = 0).description,
     stdout |-> IF PipesStdout(w) THEN rstrip(out) ELSE <<>>,
     stderr |-> rstrip(err)]

InitCommand ==
    /\ InitProgram
    /\ sw = SwIdle
    /\ delta = DeltaIdle
    /\ \E w \in Wrappers, rc \in 0 .. MaxReturnCode, out \in Outputs, err \in Outputs :
          /\ PipesStdout(w) \/ out = <<>>
          /\ cmd = [CmdIdle EXCEPT !.wrapper = w, !.returncode = rc,
                                   !.stdout = out, !.stderr = err]

RunCommand ==
    /\ ~cmd.done
    /\ LET exc == WrapperRaises(cmd.wrapper, cmd.stdout, cmd.stderr)
       IN  cmd' = [cmd EXCEPT
                     !.done = TRUE,
                     !.raised = exc,
                     !.logged = WrapperLogs(cmd.wrapper, cmd.stdout, cmd.stderr),
                     !.ret = IF exc = NoExc
                             THEN WrapperReturns(cmd.wrapper, cmd.returncode,
                                                 cmd.stdout, cmd.stderr)
                             ELSE @]
    /\ UNCHANGED <<sw, delta, runs, program>>

NextCommand == RunCommand

SpecCommand == InitCommand /\ [][NextCommand]_vars

(***************************************************************************)
(* backup_dir and backup_latest called one after another, on archive paths *)
(* of one base name in two directories                                     *)
(***************************************************************************)
KeyArchivePaths == {Path("bk", "site", ".7z"), Path("alt", "site", ".7z")}

CallKeys == CallOf({"backup_dir", "backup_latest"}, Prefixes, KeyArchivePaths)

NextKeys ==
    \/ CallKeys
    \/ LogBreaks
    \/ Archive
    \/ SelectLatest
    \/ ExistsCheck
    \/ Upload
    \/ Finally

SpecKeys == Init /\ [][NextKeys]_vars

(***************************************************************************)
(* Two processes running backup procedures at once. Each has its own       *)
(* locals (runs[i]); what they share is the file system, of which the      *)
(* temporary directories are followed here. A step is one call that        *)
(* touches a temporary directory: tempfile.mkdtemp(), the SNAPSHOT tool,   *)
(* _archive, shutil.rmtree in the finally block.                           *)
(***************************************************************************)
\* what the steps of the two processes leave alone
single ==
    <<sw, delta, cmd, proc, pc, args, status_brief, status_detailed, backup_ok,
      temp_backup_dir, result, escaped, log, log_writable, s3, local, h>>

\* a procedure is called in process i: temp_backup_dir = None
RunCall(i) ==
    /\ runs[i].pc = "idle"
    /\ runs[i].calls < MaxCalls
    /\ \E p \in ArchivingProcs, a \in ArchivePaths :
        runs' = [runs EXCEPT ![i] =
                    [RunIdle EXCEPT !.proc = p, !.pc = FirstStep(p), !.archive_path = a,
                                    !.calls = runs[i].calls + 1]]
    /\ UNCHANGED <<single, tmpdirs>>

\* temp_backup_dir = tempfile.mkdtemp() (+ "/trac" in backup_trac), or the log
\* line before it or mkdtemp itself raising
RunMkdtemp(i) ==
    /\ runs[i].pc = "snapshot"
    /\ runs[i].proc # "backup_svn_wc"
    /\ \E o \in {"ok", "nomkdtemp"} :
        LET d == mkdtemp(tmpdirs)
        IN  IF o = "ok"
            THEN /\ tmpdirs' = tmpdirs \cup {d}
                 /\ runs' = [runs EXCEPT
                       ![i].temp_backup_dir =
                           IF runs[i].proc = "backup_trac" THEN d \o <<"trac">> ELSE d,
                       ![i].pc = "tool"]
            ELSE /\ runs' = [runs EXCEPT ![i].pc = "finally"]
                 /\ UNCHANGED tmpdirs
    /\ UNCHANGED single

\* temp_dir = tempfile.mkdtemp() in _git_backup, and the clone started in it
RunClone(i) ==
    /\ runs[i].pc = "tool"
    /\ runs[i].proc = "backup_git_repo"
    /\ \E o \in {"ok", "nomkdtemp"} :
        LET d == mkdtemp(tmpdirs)
        IN  IF o = "ok"
            THEN /\ tmpdirs' = tmpdirs \cup {d}
                 /\ runs' = [runs EXCEPT ![i].temp_dir = d, ![i].pc = "clone"]
            ELSE /\ runs' = [runs EXCEPT ![i].pc = "finally"]
                 /\ UNCHANGED tmpdirs
    /\ UNCHANGED single

\* the SNAPSHOT tool ends: _git_backup removes its temp_dir unless communicate()
\* raised, trac-admin hotcopy makes <d>/trac
RunTool(i) ==
    /\ \/ runs[i].pc = "tool" /\ runs[i].proc # "backup_git_repo"
       \/ runs[i].pc = "clone"
       \/ runs[i].pc = "snapshot" /\ runs[i].proc = "backup_svn_wc"
    /\ \E o \in ToolOutcomes :
        /\ tmpdirs' =
               IF runs[i].proc = "backup_git_repo" /\ o \notin ToolExc
               THEN rmtree(tmpdirs, runs[i].temp_dir)
               ELSE IF runs[i].proc = "backup_trac" /\ o = "ok"
               THEN tmpdirs \cup {runs[i].temp_backup_dir}
               ELSE tmpdirs
        /\ runs' = [runs EXCEPT ![i].temp_dir = NoDir,
                                ![i].pc = IF o = "ok" THEN "archive" ELSE "finally"]
    /\ UNCHANGED single

\* _archive(src, archive_path): 7z exits 0 only if its source directory is there
\* (what follows it up to the finally block touches no temporary directory)
RunArchive(i) ==
    /\ runs[i].pc = "archive"
    /\ \E o \in ToolOutcomes :
        LET src == ArchiveSource(runs[i].proc, runs[i].temp_backup_dir)
        IN  /\ (o = "ok") => (src = LiveDir \/ src \in tmpdirs)
            /\ runs' = [runs EXCEPT
                  ![i].archived = IF o = "ok" THEN src ELSE NoDir,
                  ![i].pc = "finally"]
    /\ UNCHANGED <<single, tmpdirs>>

\* the positions at which process i has made a temporary directory and not yet
\* left its finally block
Holding(i) ==
    /\ runs[i].pc \in {"tool", "clone", "archive", "finally"}
    /\ runs[i].temp_backup_dir # NoDir

\* the finally block: if temp_backup_dir is not None: shutil.rmtree(temp_backup_dir),
\* and the return
RunFinally(i) ==
    /\ runs[i].pc = "finally"
    /\ tmpdirs' = RemoveTemp(tmpdirs, runs[i].temp_backup_dir)
    /\ runs' = [runs EXCEPT
          ![i].pc = "idle",
          ![i].overlapped = /\ runs[i].temp_backup_dir # NoDir
                            /\ \E j \in Runs \ {i} : Holding(j)]
    /\ UNCHANGED single

NextConcurrent ==
    \E i \in Runs :
        \/ RunCall(i)
        \/ RunMkdtemp(i)
        \/ RunClone(i)
        \/ RunTool(i)
        \/ RunArchive(i)
        \/ RunFinally(i)

SpecConcurrent == Init /\ [][NextConcurrent]_vars

(***************************************************************************)
(* Vocabulary of the properties                                            *)
(***************************************************************************)
\* the call has come back to its caller with a result
Returned == pc = "returned"

\* the call has ended with an exception leaving the procedure
Escaped == pc = "raised"

Ended == Returned \/ Escaped

\* a text made of parts ends in the word w
EndsIn(text, w) == Len(text) > 0 /\ text[Len(text)] = w

\* the lines the current call has appended to the log
RunLog == SubSeq(log, h.logged0 + 1, Len(log))

Logged(line) == \E i \in 1..Len(RunLog) : RunLog[i] = line

\* the text holds the two parts a, b in a row
Holds2(text, a, b) ==
    \E i \in 1..Len(text) : i < Len(text) /\ text[i] = a /\ text[i + 1] = b

(***************************************************************************)
(* C1: every temporary directory a backup procedure created (with          *)
(* tempfile.mkdtemp) is gone when the procedure returns.                   *)
(* Fails: backup_trac removes <tmp>/trac and leaves <tmp>; _git_backup     *)
(* leaves its temp_dir when the wait for git is interrupted.               *)
(***************************************************************************)
C1_NoTempDirLeak ==
    (Returned /\ proc \in BackupProcs) => (h.created \cap tmpdirs = {})

(***************************************************************************)
(* C2: no exception leaves a backup procedure: every call ends by          *)
(* returning a result record.                                              *)
(* Fails: the 'Starting backup' line is written before the try, and the    *)
(* finally block writes the log and runs the sweeper outside any handler.  *)
(***************************************************************************)
C2_NothingEscapes ==
    (proc \in BackupProcs) => ~Escaped

(***************************************************************************)
(* C3: in every returned result retval is FALSE exactly when status_brief  *)
(* ends in "FAILED" and TRUE exactly when it ends in "OK".                 *)
(***************************************************************************)
C3_RetvalMatchesBrief ==
    Returned =>
        /\ (result.retval = FALSE) <=> EndsIn(result.status_brief, "FAILED")
        /\ (result.retval = TRUE) <=> EndsIn(result.status_brief, "OK")

\* a backup whose label is "FAILED" has returned success
C3_Witness ==
    /\ Returned
    /\ proc \in BackupProcs
    /\ result.retval
    /\ Holds2(result.status_brief, "FAILED", "OK")

(***************************************************************************)
(* C4: a backup procedure run a second time on an unchanged archive path,  *)
(* whose object the first run uploaded and the bucket still holds with the *)
(* same size, uploads nothing and reports success.                         *)
(* Fails: the skip branch of backup_latest and backup_trac formats a name  *)
(* the procedure never binds; the NameError is caught and the run FAILED.  *)
(***************************************************************************)
C4_SecondRunSkipsUpload ==
    ( /\ Ended
      /\ proc \in BackupProcs
      /\ h.prev.proc = proc
      /\ h.prev.uploaded
      /\ h.prev.key = h.existsKey
      /\ h.existsAnswer = "exists"
      /\ h.faults = {} )
    => ( /\ h.uploads = 0
         /\ Returned
         /\ result.retval
         /\ EndsIn(result.status_brief, "OK") )

\* the faults of the current call that are failures of the remote store
S3Faults == {f \in h.faults : f[2] \in S3Exc}

(***************************************************************************)
(* C5: a failure of the remote store (existence check, upload, listing,    *)
(* fetch) never leaves the procedure as an exception: it is caught inside  *)
(* the procedure, which returns with retval False.                         *)
(***************************************************************************)
C5_RemoteFailureCaught ==
    /\ Escaped => escaped \notin S3Exc
    /\ (S3Faults # {}) => (h.raisedExc # NoExc)
    /\ (Returned /\ S3Faults # {}) =>
           (~result.retval /\ EndsIn(result.status_brief, "FAILED"))
    /\ (Ended /\ S3Faults # {} /\ h.faults = S3Faults) => Returned

\* an upload that failed, in a backup procedure that has returned
C5_Witness ==
    /\ Returned
    /\ proc \in BackupProcs
    /\ <<"upload", "ClientError">> \in h.faults
    /\ h.uploads = 1

\* the first exception of the current call: the one raised in the try, else
\* the one that left the procedure
FirstRaised == IF h.raisedExc # NoExc THEN h.raisedExc ELSE escaped

(***************************************************************************)
(* C6: when any step of a backup procedure raises, the later ARCHIVE and   *)
(* UPLOAD-DECISION steps are skipped, the procedure still returns (its     *)
(* cleanup done) with retval False, and status_detailed holds the type and *)
(* message of the exception.                                               *)
(* Fails: a raise outside the try leaves the procedure (C2), and what      *)
(* "except:" catches is reported as 'Unknown error' with no type.          *)
(***************************************************************************)
C6_RaiseShortCircuits ==
    (Ended /\ proc \in BackupProcs /\ FirstRaised # NoExc)
    => ( /\ h.afterRaise = {}
         /\ Returned
         /\ ~result.retval
         /\ Holds2(result.status_detailed, "Error:", FirstRaised) )

(***************************************************************************)
(* C7: the Retention Sweeper runs only after a successful upload or skip:  *)
(* a backup procedure that returns FAILED has not run it, and every file   *)
(* that was in the store directory when the call began is still there.     *)
(***************************************************************************)
C7_SweepOnlyOnSuccess ==
    /\ (proc \in BackupProcs /\ h.swept) =>
           /\ backup_ok
           /\ h.existsAnswer \in {"exists", "absent"}
           /\ (h.existsAnswer = "absent") => (h.uploads = 1 /\ h.raisedAt = "")
    /\ (proc \in BackupProcs /\ Returned /\ ~result.retval) =>
           /\ ~h.swept
           /\ h.deleted = {}
           /\ \A p \in AllPaths : h.local0[p].present => local[p].present

\* a failed run that had written its archive next to files the sweeper would remove
C7_Witness ==
    /\ Returned
    /\ proc \in ArchivingProcs
    /\ ~result.retval
    /\ h.archived
    /\ h.uploads = 1
    /\ cleanup_old_archines(local, dirname(archive_path), splitext1(archive_path),
                            MAX_ARCHIVE_AGE_DAYS) # {}

(***************************************************************************)
(* C8: a Retention Sweeper that exits non-zero does not fail the run: the  *)
(* procedure returns retval True with status OK, and the sweeper's outcome *)
(* (failure description and stderr) is in the log.                         *)
(***************************************************************************)
C8_SweepFailureTolerated ==
    /\ (Returned /\ <<"sweep", "fail">> \in h.faults) =>
           /\ result.retval
           /\ EndsIn(result.status_brief, "OK")
           /\ Logged(<<"find -exec rm", "finished with return code",
                       "StdErr:", "stderr of", "find -exec rm">>)
    /\ (Ended /\ h.faults = {<<"sweep", "fail">>}) => Returned

\* a run that returned after its sweeper exited non-zero
C8_Witness ==
    /\ Returned
    /\ h.swept
    /\ ~h.sweepRet
    /\ h.faults = {<<"sweep", "fail">>}

(***************************************************************************)
(* C9: for any listing and any threshold of N days, a sweeper that exits 0 *)
(* has deleted no file younger than N days, no file outside the directory  *)
(* or without the extension suffix, and has deleted every matching file    *)
(* strictly older than N days.                                             *)
(* Fails: find -mtime +N drops the fraction of the age in days, so a file  *)
(* older than N days and younger than N+1 days stays.                      *)
(***************************************************************************)
C9_SweepExact ==
    (sw.ran /\ sw.ret) =>
        \A p \in AllPaths :
            LET f == sw.before[p]
                gone == f.present /\ ~sw.files[p].present
                matches == /\ p.dir = sw.dir
                           /\ (sw.extension = "" \/ p.ext = sw.extension)
            IN  /\ gone => (matches /\ f.age >= sw.max_age * HalfDaysPerDay)
                /\ (f.present /\ matches /\ f.age > sw.max_age * HalfDaysPerDay) => gone

\* the only thing that went wrong in the current call: an external tool of
\* the SNAPSHOT or ARCHIVE step exited non-zero
ToolExitedNonZero ==
    /\ h.toolFailed # ""
    /\ \E step \in {"snapshot", "archive"} : h.faults = {<<step, "fail">>}

(***************************************************************************)
(* C10: when an external tool (svnadmin, svn, git, trac-admin, mysqldump,  *)
(* 7za) exits non-zero, its outcome (failure description and stderr) is    *)
(* written to the log, nothing is uploaded, and the procedure returns      *)
(* retval False with status FAILED.                                        *)
(* Fails: backup_lamp never logs the outcome of mysqldump.                 *)
(***************************************************************************)
C10_ToolFailureLoggedAndFailed ==
    (Ended /\ proc \in BackupProcs /\ ToolExitedNonZero)
    => ( /\ \E i \in 1 .. Len(RunLog) :
               /\ Holds2(RunLog[i], h.toolFailed, "finished with return code")
               /\ Holds2(RunLog[i], "StdErr:", "stderr of")
         /\ h.uploads = 0
         /\ h.existsAnswer = ""
         /\ Returned
         /\ ~result.retval
         /\ EndsIn(result.status_brief, "FAILED") )

(***************************************************************************)
(* C11: backup_latest selects a file the glob pattern matches, no other    *)
(* match has a later modification time, and that file is the only one the  *)
(* run checks for in the bucket and uploads.                               *)
(***************************************************************************)
C11_LatestAmongMatches ==
    (proc = "backup_latest") =>
        LET f == h.backup_filepath
            matched(q) == /\ local[q].present
                          /\ q.dir = filemask.dir
                          /\ q.ext = filemask.ext
        IN  /\ (f # NoPath) =>
                   /\ f \in AllPaths
                   /\ matched(f)
                   /\ \A q \in AllPaths : matched(q) => local[q].age >= local[f].age
            /\ (h.existsAnswer # "") => (f # NoPath /\ h.existsKey = basename(f))
            /\ (h.uploads > 0) => (h.uploads = 1 /\ h.uploadKey = basename(f))
            /\ \E b \in LatestBuckets : \A k \in Keys : (k # basename(f)) => s3[k] = b[k]

\* b.log of the example: a match is selected and uploaded while an older match
\* and a newer file of another extension are in the directory
C11_Witness ==
    /\ Returned
    /\ proc = "backup_latest"
    /\ result.retval
    /\ h.uploads = 1
    /\ \E a, c \in AllPaths :
          /\ a # h.backup_filepath
          /\ local[a].present /\ a.ext = filemask.ext
          /\ local[a].age > local[h.backup_filepath].age
          /\ local[c].present /\ c.ext # filemask.ext
          /\ local[c].age < local[h.backup_filepath].age

\* the glob pattern of the current backup_latest call matches no file
EmptyMatch ==
    /\ proc = "backup_latest"
    /\ \A q \in AllPaths :
          ~(local[q].present /\ q.dir = filemask.dir /\ q.ext = filemask.ext)

(***************************************************************************)
(* C12: when the glob pattern of backup_latest matches no file, the run    *)
(* invokes neither the existence check nor the upload, and (nothing else   *)
(* going wrong) returns retval True, a brief status ending in OK and a     *)
(* detailed status saying there is nothing to backup.                      *)
(***************************************************************************)
C12_EmptyMatchIsSuccess ==
    EmptyMatch =>
        /\ pc \notin {"exists", "upload"}
        /\ h.existsAnswer = ""
        /\ h.uploads = 0
        /\ s3 \in LatestBuckets
        /\ Returned =>
               /\ result.retval
               /\ EndsIn(result.status_brief, "OK")
               /\ Holds2(result.status_detailed, "Nothing to backup in", filemask.ext)
        /\ (Ended /\ h.faults = {}) => Returned

\* a returned run whose pattern matched nothing in a directory that holds files
C12_Witness ==
    /\ EmptyMatch
    /\ Returned
    /\ result.retval
    /\ \E q \in AllPaths : local[q].present

(***************************************************************************)
(* C13: from a non-empty listing (restricted to the key prefix when one is *)
(* given) download_latest selects an object of the listing that no object  *)
(* of the listing is later than: an object with an earlier LastModified    *)
(* than another of the listing is never the one chosen.                    *)
(***************************************************************************)
C13_LatestObjectSelected ==
    (proc = "download_latest") =>
        LET listed(k) == s3[k].present /\ (file_prefix = "" \/ k.stem = file_prefix)
            chosen == h.s3_key
        IN  /\ (pc = "fetch" \/ h.raisedAt = "fetch") =>
                   /\ chosen \in Keys
                   /\ listed(chosen)
                   /\ \A k \in Keys : listed(k) => s3[k].mtime <= s3[chosen].mtime
            /\ (chosen # basename(NoPath)) => listed(chosen)
            /\ ((\E k \in Keys : listed(k)) /\ Ended /\ h.faults = {}) =>
                   h.raisedAt = "fetch"

\* y of the example: the later of two listed objects is chosen, while a still
\* later object outside the prefix is in the bucket
C13_Witness ==
    /\ proc = "download_latest"
    /\ pc = "fetch"
    /\ file_prefix # ""
    /\ \E x, z \in Keys :
          /\ x # h.s3_key
          /\ s3[x].present /\ x.stem = file_prefix
          /\ s3[x].mtime < s3[h.s3_key].mtime
          /\ s3[z].present /\ z.stem # file_prefix
          /\ s3[z].mtime > s3[h.s3_key].mtime

(***************************************************************************)
(* C14: once download_latest has chosen the latest object: when no file is *)
(* at store_dir/<key>, or its size differs from the object's, the object   *)
(* is downloaded to that path and the run ends with the file there; when a *)
(* file of the same size is there, nothing is downloaded.                  *)
(* Fails: _download_from_s3 calls download_file on the unbound name s3, so *)
(* nothing is ever downloaded.                                             *)
(***************************************************************************)
C14_DownloadUnlessSameSize ==
    (proc = "download_latest" /\ Ended /\ h.faults = {} /\ h.s3_key \in Keys) =>
        LET f == StoreFile(store_dir, h.s3_key)
            need == ~f.present \/ f.size # s3[h.s3_key].size
        IN  /\ need => (h.s3_key \in h.stored)
            /\ ~need => (h.stored = {})

\* the whole seconds of the duration given to _format_time_delta
DeltaSeconds == delta.aTimeDelta.days * SecondsPerDay + delta.aTimeDelta.seconds

\* the seconds a printed unit stands for
UnitSeconds(u) ==
    CASE u = "day(s)" -> 86400
      [] u = "hour(s)" -> 3600
      [] u = "min" -> 60
      [] u = "sec" -> 1

\* the seconds the printed parts add up to
RECURSIVE Recombined(_)
Recombined(parts) ==
    IF parts = <<>> THEN 0
    ELSE Head(parts).n * UnitSeconds(Head(parts).unit) + Recombined(Tail(parts))

(***************************************************************************)
(* C15: _format_time_delta on a duration that is not negative prints the   *)
(* units from the largest non-zero one down to the seconds: 3661 seconds   *)
(* give "1 hour(s), 1 min, 1 sec", 45 seconds give "45 sec", a duration    *)
(* under a minute gives exactly "<s> sec", and the numbers printed add up  *)
(* to the whole seconds of the duration.                                   *)
(***************************************************************************)
C15_FormatTimeDelta ==
    delta.done =>
        LET out == delta.out
            n == DeltaSeconds
            order == <<"day(s)", "hour(s)", "min", "sec">>
        IN  /\ Len(out) \in 1 .. 4
            /\ \A i \in 1 .. Len(out) : out[i].unit = order[4 - Len(out) + i]
            /\ (Len(out) > 1) => (out[1].n # 0)
            /\ (Len(out) = 4) <=> (n >= 86400)
            /\ (Len(out) = 3) <=> (n >= 3600 /\ n < 86400)
            /\ (Len(out) = 2) <=> (n >= 60 /\ n < 3600)
            /\ (n = 3661) => (out = <<Unit(1, "hour(s)"), Unit(1, "min"), Unit(1, "sec")>>)
            /\ (n = 45) => (out = <<Unit(45, "sec")>>)
            /\ (n < 60) => (out = <<Unit(n, "sec")>>)
            /\ \A i \in 1 .. Len(out) :
                  out[i].n < (CASE out[i].unit = "sec" -> 60 [] out[i].unit = "min" -> 60
                                [] out[i].unit = "hour(s)" -> 24 [] OTHER -> n + 1)
            /\ Recombined(out) = n

\* 3661 seconds formatted
C15_Witness ==
    /\ delta.done
    /\ DeltaSeconds = 3661
    /\ Len(delta.out) = 3

(***************************************************************************)
(* C16: every shell-command wrapper returns, with ret True if and only if  *)
(* the exit code of the process is zero; for a process that wrote to       *)
(* stderr and exited with code 1 it returns ret False and the stderr text. *)
(* Fails: on output that is not UTF-8 _to_unicode calls _write_log with    *)
(* one argument, and the wrapper raises TypeError instead of returning.    *)
(***************************************************************************)
C16_RetIffExitCodeZero ==
    cmd.done =>
        /\ cmd.raised = NoExc
        /\ cmd.ret.ret <=> (cmd.returncode = 0)
        /\ (cmd.returncode = 1 /\ \E i \in 1 .. Len(cmd.stderr) : cmd.stderr[i] # "\n") =>
               (~cmd.ret.ret /\ cmd.ret.stderr # <<>>)

\* the base filename of a path: no directory component
BaseName(p) == [stem |-> p.stem, ext |-> p.ext]

\* one step of a backup procedure uses the base filename of the file as the key
KeyIsBaseName ==
    (proc \in BackupProcs) =>
        LET k == BaseName(FilePath)
        IN  /\ (pc = "exists" /\ h'.existsAnswer \in {"exists", "absent"}) =>
                   /\ h'.existsKey = k
                   /\ (h'.existsAnswer = "exists") <=>
                          (s3[k].present /\ s3[k].size = local[FilePath].size)
            /\ (h'.uploads > h.uploads) =>
                   (pc = "upload" /\ h'.uploadKey = k /\ h.existsKey = k)
            /\ (s3' # s3) =>
                   /\ pc = "upload"
                   /\ s3'[k].present
                   /\ s3'[k].size = local[FilePath].size
                   /\ \A j \in Keys : (j # k) => (s3'[j] = s3[j])

(***************************************************************************)
(* C17: in every run the existence check and the upload use one key, the   *)
(* base filename of the local file (no directory, no prefix): the check    *)
(* answers by the object under that key, the upload writes the object      *)
(* under that key and no other; so two files of one base filename in two   *)
(* directories address one object.                                         *)
(***************************************************************************)
C17_KeyIsBaseName == [][KeyIsBaseName]_vars

\* a run on alt/site.7z that finds, and skips for, the object a run on
\* bk/site.7z uploaded (or the other way round)
C17_Witness ==
    /\ Returned
    /\ proc = "backup_dir"
    /\ h.prev.uploaded
    /\ h.prev.dir # ""
    /\ h.prev.dir # dirname(archive_path)
    /\ h.prev.key = h.existsKey
    /\ h.existsAnswer = "exists"
    /\ h.uploads = 0

\* one step leaves every line of the log where it was
LogOnlyGrows == Len(log) <= Len(log') /\ SubSeq(log', 1, Len(log)) = log

\* a call that found the log file writable has appended a line by the time it ends
CallAppended ==
    (Ended /\ <<"start", "log">> \notin h.faults) => (Len(log) > h.logged0)

(***************************************************************************)
(* C18: the log file is append-only across any sequence of procedure       *)
(* calls: its content at any point is a prefix of its content at every     *)
(* later point, and every call (that can open the file) appends at least   *)
(* one line.                                                               *)
(***************************************************************************)
C18_LogAppendOnly == [][LogOnlyGrows]_vars /\ []CallAppended

\* a second call has added its lines after the lines of the first
C18_Witness ==
    /\ Returned
    /\ h.logged0 > 1
    /\ Len(log) > h.logged0 + 1
    /\ h.prev.proc # "none"

\* the current call has had something go wrong in the step
FaultAt(step) == \E f \in h.faults : f[1] = step

\* the steps so far came in the order SNAPSHOT, ARCHIVE, UPLOAD-DECISION, CLEANUP
StepsInOrder ==
    (proc \in ArchivingProcs) =>
        /\ (pc = "archive" \/ h.archived) => ~FaultAt("snapshot")
        /\ (pc \in {"exists", "upload"} \/ h.existsAnswer # "" \/ h.uploads > 0) =>
               (h.archived /\ ~FaultAt("archive") /\ h.toolFailed = "")
        /\ (h.uploads > 0) => (h.existsAnswer = "absent")
        /\ (~Ended /\ temp_backup_dir # NoDir) => (<<temp_backup_dir[1]>> \in tmpdirs)
        /\ ~Ended => (~h.swept /\ h.deleted = {})
        /\ h.swept => (Ended /\ backup_ok)

(***************************************************************************)
(* C19: every archiving backup procedure runs SNAPSHOT, ARCHIVE,           *)
(* UPLOAD-DECISION, CLEANUP in this order: the archiver only after the     *)
(* snapshot succeeded, the existence check and the upload only after the   *)
(* archiver succeeded, the removal of the temp directory and the sweep     *)
(* only after these, and every run ends in exactly one of OK and FAILED.   *)
(* Fails: a run that an exception leaves (C2) ends in neither.             *)
(***************************************************************************)
C19_FixedOrderOneOutcome ==
    /\ StepsInOrder
    /\ (proc \in ArchivingProcs /\ Ended) =>
           /\ Returned
           /\ EndsIn(result.status_brief, "OK") # EndsIn(result.status_brief, "FAILED")

(***************************************************************************)
(* C20: in the UPLOAD-DECISION step the upload is invoked if and only if   *)
(* the existence check answers that no object has the file's key or that   *)
(* the object's size differs from the file's; when an object of the same   *)
(* size exists the upload is skipped and the detailed status notes the     *)
(* skip; the upload is invoked at most once per run.                       *)
(* Fails: in backup_latest and backup_trac the statement that notes the    *)
(* skip raises NameError (C4), and the detailed status holds the error.    *)
(***************************************************************************)
C20_UploadIffAbsent ==
    (proc \in BackupProcs) =>
        LET k == BaseName(FilePath)
            same == s3[k].present /\ s3[k].size = local[FilePath].size
        IN  /\ h.uploads <= 1
            /\ (h.uploads = 1) => (h.existsAnswer = "absent")
            /\ (pc = "upload") => (h.existsAnswer = "absent" /\ ~same)
            /\ (Ended /\ h.existsAnswer = "absent" /\ <<"upload", "log">> \notin h.faults) =>
                   (h.uploads = 1)
            /\ (h.existsAnswer = "exists") =>
                   /\ same
                   /\ h.uploads = 0
                   /\ pc # "upload"
                   /\ Returned =>
                          \E i \in 1 .. Len(result.status_detailed) :
                              result.status_detailed[i] = "already exists at S3, skip upload"

\* the current call is a backup that had a file to back up
HadFile == proc \in BackupProcs /\ FilePath # NoPath

(***************************************************************************)
(* C21: whenever a backup procedure returns retval True and there was a    *)
(* file to back up, the bucket holds at that moment an object under the    *)
(* file's base filename whose size is the file's size; success is never    *)
(* reported for a run that neither found that object nor completed the     *)
(* upload.                                                                 *)
(***************************************************************************)
C21_SuccessMeansStored ==
    (Returned /\ result.retval /\ HadFile) =>
        LET k == BaseName(FilePath)
        IN  /\ local[FilePath].present
            /\ s3[k].present
            /\ s3[k].size = local[FilePath].size
            /\ \/ h.existsAnswer = "exists" /\ h.uploads = 0
               \/ h.existsAnswer = "absent" /\ h.uploads = 1 /\ ~FaultAt("upload")

\* a successful run that replaced the object an earlier run had stored under the key
C21_Witness ==
    /\ Returned
    /\ result.retval
    /\ HadFile
    /\ h.uploads = 1
    /\ h.prev.uploaded
    /\ h.prev.key = h.uploadKey

(***************************************************************************)
(* C22: in backup_svn_repo the source given to the archiver is the         *)
(* temporary hot-copy directory the run created, never the live            *)
(* repository, and that directory is gone when the run ends, whatever the  *)
(* outcome; backup_svn_wc creates no temporary directory, updates the      *)
(* working copy in place and gives the working copy to the archiver.       *)
(***************************************************************************)
C22_SvnArchiveSource ==
    /\ (proc = "backup_svn_repo") =>
           /\ h.archived => (h.archiveSrc \in h.created /\ h.archiveSrc # LiveDir)
           /\ (h.archived /\ ~Ended) => (h.archiveSrc \in tmpdirs)
           /\ Ended => (h.created \cap tmpdirs = {})
    /\ (proc = "backup_svn_wc") =>
           /\ h.created = {}
           /\ temp_backup_dir = NoDir
           /\ h.archived =>
                  /\ h.archiveSrc = LiveDir
                  /\ Logged(<<"Backing up", "svn up">>)
                  /\ Logged(OutErrLine(CommandOutcome("svn up", TRUE)))

\* a backup_svn_repo run that archived its hot copy, failed later, and returned
C22_Witness ==
    /\ Returned
    /\ proc = "backup_svn_repo"
    /\ ~result.retval
    /\ h.archived
    /\ h.archiveSrc \in h.created
    /\ h.archiveSrc \notin tmpdirs

\* the process of the wrapper wrote bytes that are not UTF-8 to a pipe the wrapper reads
WroteUndecodable ==
    \/ PipesStdout(cmd.wrapper) /\ Undecodable(cmd.stdout)
    \/ Undecodable(cmd.stderr)

(***************************************************************************)
(* C23: when the bytes captured from the command are not valid UTF-8 the   *)
(* wrapper still returns its outcome record: the output is decoded with    *)
(* replacement characters, the fallback is logged, and the decoding step   *)
(* raises nothing.                                                         *)
(* Fails: the except clause of _to_unicode calls _write_log with one       *)
(* argument; the TypeError leaves _to_unicode and the wrapper.             *)
(***************************************************************************)
C23_DecodeFallback ==
    (cmd.done /\ WroteUndecodable) =>
        /\ cmd.raised = NoExc
        /\ cmd.ret.ret <=> (cmd.returncode = 0)
        /\ cmd.ret.description # <<>>
        /\ Undecodable(cmd.stderr) =>
               (\E i \in 1 .. Len(cmd.ret.stderr) : cmd.ret.stderr[i] = "U+FFFD")
        /\ cmd.logged # <<>>

(***************************************************************************)
(* C24: download_latest returns retval True and a brief status ending in   *)
(* OK in each of its outcomes without a fault: after a download, after     *)
(* skipping because the local copy has the object's size, and when the     *)
(* listing under the prefix holds no object.                               *)
(* Fails: the download raises NameError, the skip note TypeError, the      *)
(* empty listing AttributeError, or UnboundLocalError in the finally.      *)
(***************************************************************************)
C24_DownloadOutcomesOk ==
    (proc = "download_latest" /\ Ended /\ h.faults = {}) =>
        /\ Returned
        /\ result.retval
        /\ EndsIn(result.status_brief, "OK")

\* the temporary directories process i holds: the one mkdtemp() gave to the
\* procedure, and the temp_dir of _git_backup
DirsOf(i) ==
    (IF runs[i].temp_backup_dir # NoDir THEN {<<runs[i].temp_backup_dir[1]>>} ELSE {})
        \cup (IF runs[i].temp_dir # NoDir THEN {runs[i].temp_dir} ELSE {})

(***************************************************************************)
(* C25: under any interleaving of two processes running backup procedures  *)
(* (the same procedure on the same archive path included), the two never   *)
(* hold the same temporary directory, and a directory a process made and   *)
(* still holds is there: the finally block of the other one has not        *)
(* removed it, and the archiver finds the snapshot it is given.            *)
(***************************************************************************)
C25_TempDirsNotShared ==
    \A i \in Runs :
        Holding(i) =>
            /\ DirsOf(i) \subseteq tmpdirs
            /\ runs[i].pc = "archive" => runs[i].temp_backup_dir \in tmpdirs
            /\ \A j \in Runs \ {i} : Holding(j) => DirsOf(i) \cap DirsOf(j) = {}

\* process i has removed its directory in its finally block while process j, in
\* the same procedure on the same archive path, holds its own and archives it
C25_Witness ==
    \E i \in Runs : \E j \in Runs \ {i} :
        /\ runs[i].pc = "idle"
        /\ runs[i].overlapped
        /\ runs[i].archived \notin {NoDir, LiveDir}
        /\ runs[i].calls = 1
        /\ runs[j].calls = 1
        /\ runs[j].pc = "archive"
        /\ Holding(j)
        /\ runs[j].proc = runs[i].proc
        /\ runs[j].archive_path = runs[i].archive_path
        /\ runs[j].temp_backup_dir \in tmpdirs

====
